---- MODULE Spec2Model ----
(***************************************************************************)
(* The constant-product AMM of src/6-amm/programs/amm: the four           *)
(* instructions Initialize, Deposit, Swap and Withdraw acting on the pool *)
(* Config, the two vaults, the LP mint and the callers' token accounts.   *)
(*                                                                         *)
(* Every instruction runs as one Solana transaction: when a require!, a   *)
(* `?` or a panic ends the handler with an error the runtime discards     *)
(* every account write of the transaction, so a failed call leaves the    *)
(* ledger as it was.  The variable `ret` records the last call and its    *)
(* outcome; it is the only thing a failed call changes.                   *)
(*                                                                         *)
(* Amounts are u64 in the program and the curve arithmetic is u128.  The  *)
(* model keeps the two widths scaled down: u64 has word_bits bits and     *)
(* u128 twice as many.  word_bits is fixed when the accounts are set up:  *)
(* AmpleBits where every amount is far below the top of the range, as in  *)
(* the spec's example, and WordBits where the amounts reach the top, so   *)
(* that the widest product stays within TLC's 32-bit integers; 10_000 is  *)
(* below the narrow range, as it is below 2^64.                           *)
(***************************************************************************)
EXTENDS Integers, Sequences, FiniteSets, TLC

VARIABLES config, vault_x, vault_y, mint_lp, user_x, user_y, user_lp, ret,
          word_bits

ledger == <<vault_x, vault_y, mint_lp, user_x, user_y, user_lp>>
vars == <<config, vault_x, vault_y, mint_lp, user_x, user_y, user_lp, ret,
         word_bits>>

\* ------------------------------------------------------------------ bounds
\* Each user's balance of X and of Y when the pool is created.
MaxBal == 2
\* Largest amount or limit argument of a call (and of the curve crate's answer).
MaxArg == 2
\* Cap on the LP supply: a Deposit that would mint past it is not taken.
MaxLp == 2
\* Largest small reserve of the account states SpecCalls starts from.
MaxR == 4

\* Bits of the narrow integer type that stands for u64 where the amounts
\* reach the top of its range; u128 has twice as many.
WordBits == 14
\* Bits of u64 where every amount stays far below the top of its range.
AmpleBits == 2 * WordBits

\* The range of u64 at the word size of the accounts.
U64 == 2 ^ word_bits

\* A narrowing to half the width of u64.
as_u32(v) == v % (2 ^ (word_bits \div 2))

\* `v as u64` on a u128 value: the low half, silently.
as_u64(v) == v % U64

\* Whether a u128 operation's result is in range (it panics when it is not
\* and overflow checks are on; checked_mul / checked_div give None, unwrapped).
u128_in_range(v) == 0 <= v /\ v \div U64 < U64

Users == {"u1", "u2"}
Amounts == 0 .. MaxArg

\* The fees a pool is given (any u16, initialize.rs:72): none, the usual 0.3%,
\* a half, the whole amount, and two above the denominator.
FeeSet == {0, 30, 5000, 10000, 10001, 65535}
\* The fees of the pools whose whole life is followed.
PoolFees == {0, 30, 10001}

\* The denominator of the fee, written 10_000 in swap.rs.
BPS_DENOM == 10000

\* ------------------------------------------------------------ call record
NoEvents == << >>

Call(op, user, amount, lim1, lim2, x_to_y, err, out1, out2, events) ==
  [op |-> op, user |-> user, amount |-> amount, lim1 |-> lim1, lim2 |-> lim2,
   x_to_y |-> x_to_y, err |-> err, out1 |-> out1, out2 |-> out2,
   events |-> events]

NoCall == Call("none", "u1", 0, 0, 0, FALSE, "Ok", 0, 0, NoEvents)

\* -------------------------------------------------------------- Initialize
\* A Config written with the lock set.
InitConfigLocked(fee) == [init |-> TRUE, fee |-> fee, locked |-> TRUE]

\* Config as written by Initialize::init: the fee as given, locked = false.
InitConfig(fee) == [init |-> TRUE, fee |-> fee, locked |-> FALSE]

\* Before Initialize: no Config, no vaults, no LP mint; the users hold tokens.
Init ==
  /\ word_bits = AmpleBits
  /\ config = [init |-> FALSE, fee |-> 0, locked |-> FALSE]
  /\ vault_x = 0
  /\ vault_y = 0
  /\ mint_lp = 0
  /\ user_x = [u \in Users |-> MaxBal]
  /\ user_y = [u \in Users |-> MaxBal]
  /\ user_lp = [u \in Users |-> 0]
  /\ ret = NoCall

\* The accounts are created with `init`, so a second Initialize of the same
\* seed fails in account validation and is not a step of the pool.
Initialize(fee) ==
  /\ ~config.init
  /\ config' = InitConfig(fee)
  /\ ret' = Call("initialize", "u1", fee, 0, 0, FALSE, "Ok", 0, 0, NoEvents)
  /\ UNCHANGED <<ledger, word_bits>>

\* ------------------------------------------------------------- the ledger
\* The SPL token program's transfer and burn fail, and with them the whole
\* transaction, when the source account holds less than the amount.
token_debit_ok(balance, amount) == balance >= amount

\* A failed deposit whose first transfer is not rolled back.
FailKeepingFirstTransfer(call) ==
  /\ ret' = call
  /\ IF /\ call.op = "deposit" /\ call.err = "TokenInsufficientFunds"
        /\ user_x[call.user] >= call.out1
       THEN /\ user_x' = [user_x EXCEPT ![call.user] = @ - call.out1]
            /\ vault_x' = vault_x + call.out1
            /\ UNCHANGED <<config, vault_y, mint_lp, user_y, user_lp, word_bits>>
       ELSE UNCHANGED <<config, ledger, word_bits>>

\* A failed call: the transaction is rolled back, only its outcome is seen.
Fail(call) ==
  /\ ret' = call
  /\ UNCHANGED <<config, ledger, word_bits>>

\* -------------------------------------------------------------------- Swap
\* The lock looked at after the amount instead of first.
swap_precheck_lock_late(locked, amount_in, user_src, vault_src, vault_dst) ==
  IF ~(amount_in > 0) THEN "InvalidAmount"
  ELSE IF locked THEN "PoolLocked"
  ELSE IF ~(user_src >= amount_in) THEN "InsufficientFunds"
  ELSE IF ~(vault_src > 0 /\ vault_dst > 0) THEN "InsufficientLiquidity"
  ELSE "Ok"

\* The checks before the curve computation, in the order of the code.
swap_precheck(locked, amount_in, user_src, vault_src, vault_dst) ==
  IF locked THEN "PoolLocked"
  ELSE IF ~(amount_in > 0) THEN "InvalidAmount"
  ELSE IF ~(user_src >= amount_in) THEN "InsufficientFunds"
  ELSE IF ~(vault_src > 0 /\ vault_dst > 0) THEN "InsufficientLiquidity"
  ELSE "Ok"

\* Whether the program's build traps integer overflow (the release profile's
\* overflow-checks).  The profile is not part of src/; spec section 7 requires
\* that arithmetic overflow aborts the transition, and the model follows it:
\* an u128 operation that leaves its range panics and the transaction fails.
overflow_checks == TRUE

\* `10_000 - fee` on u128 leaves the range exactly when fee > 10_000.
fee_sub_overflows(fee) == fee > BPS_DENOM

\* What lines 96-101 compute when `10_000 - fee` wraps instead of trapping.
\* With W = 2^128 and d = fee - 10_000, the factor is W - d, the product
\* amount_in * (W - d) wraps to W - amount_in * d, and amount_in_with_fee is
\* about W / 10_000; the numerator wraps in turn, and for reserves and amounts
\* far below 2^64 (all the model has) the quotient is (reserve_out - 1) mod
\* 10_000, whatever reserve_in, amount_in and d are.
wrapped_amount_out(reserve_out) == (reserve_out - 1) % BPS_DENOM

\* The fee-adjusted amount rounded up instead of down.
amount_in_with_fee_rounded_up(amount_in, fee) ==
  (amount_in * (BPS_DENOM - fee) + BPS_DENOM - 1) \div BPS_DENOM

\* The fee left out of the amount the curve is applied to.
amount_in_without_fee(amount_in, fee) == amount_in

\* let amount_in_with_fee = (amount_in as u128 * (10_000 - fee)) / 10_000;
amount_in_with_fee(amount_in, fee) ==
  (amount_in * (BPS_DENOM - fee)) \div BPS_DENOM

\* The quotient rounded up instead of down.
swap_amount_out_rounded_up(reserve_in, reserve_out, in_with_fee) ==
  LET numerator == in_with_fee * reserve_out
      denominator == reserve_in + in_with_fee
  IN  (numerator + denominator - 1) \div denominator

\* The source reserve left out of the denominator.
swap_amount_out_without_reserve_in(reserve_in, reserve_out, in_with_fee) ==
  LET numerator == in_with_fee * reserve_out
      denominator == in_with_fee
  IN  IF denominator = 0 THEN 0 ELSE as_u64(numerator \div denominator)

\* let amount_out = (numerator / denominator) as u64;
swap_amount_out(reserve_in, reserve_out, in_with_fee) ==
  LET numerator == in_with_fee * reserve_out
      denominator == reserve_in + in_with_fee
  IN  as_u64(numerator \div denominator)

\* Whether one of the u128 operations of lines 96-100 leaves its range.
swap_overflows(reserve_in, reserve_out, amount_in, fee) ==
  \/ fee_sub_overflows(fee)
  \/ ~u128_in_range(amount_in * (BPS_DENOM - fee))
  \/ ~u128_in_range(amount_in_with_fee(amount_in, fee) * reserve_out)
  \/ ~u128_in_range(reserve_in + amount_in_with_fee(amount_in, fee))

\* The zero output let through.
swap_postcheck_allowing_zero(amount_out, min_amount_out, vault_dst) ==
  IF ~(amount_out >= min_amount_out) THEN "SlippageExceeded"
  ELSE IF ~(vault_dst >= amount_out) THEN "InsufficientLiquidity"
  ELSE "Ok"

\* The zero output looked at before the slippage bound.
swap_postcheck_zero_first(amount_out, min_amount_out, vault_dst) ==
  IF ~(amount_out > 0) THEN "InvalidAmount"
  ELSE IF ~(amount_out >= min_amount_out) THEN "SlippageExceeded"
  ELSE IF ~(vault_dst >= amount_out) THEN "InsufficientLiquidity"
  ELSE "Ok"

\* The checks after the curve computation, in the order of the code.
swap_postcheck(amount_out, min_amount_out, vault_dst) ==
  IF ~(amount_out >= min_amount_out) THEN "SlippageExceeded"
  ELSE IF ~(amount_out > 0) THEN "InvalidAmount"
  ELSE IF ~(vault_dst >= amount_out) THEN "InsufficientLiquidity"
  ELSE "Ok"

\* The event computed from vault amounts read again after the transfers.
SwapEventAfterReload(user, amount_in, amount_out, x_to_y, vault_src, vault_dst) ==
  LET src_now == vault_src + amount_in
      dst_now == vault_dst - amount_out
  IN  [user |-> user, amount_in |-> amount_in, amount_out |-> amount_out,
       x_to_y |-> x_to_y,
       reserve_x |-> IF x_to_y THEN src_now + amount_in ELSE dst_now - amount_out,
       reserve_y |-> IF x_to_y THEN dst_now - amount_out ELSE src_now + amount_in]

\* emit!(SwapEvent { .. }): the reserves are computed from the vault amounts
\* the handler read before the transfers.
SwapEvent(user, amount_in, amount_out, x_to_y, vault_src, vault_dst) ==
  [user |-> user, amount_in |-> amount_in, amount_out |-> amount_out,
   x_to_y |-> x_to_y,
   reserve_x |-> IF x_to_y THEN vault_src + amount_in ELSE vault_dst - amount_out,
   reserve_y |-> IF x_to_y THEN vault_dst - amount_out ELSE vault_src + amount_in]

Swap(user, amount_in, min_amount_out, x_to_y) ==
  /\ config.init
  /\ LET user_src == IF x_to_y THEN user_x[user] ELSE user_y[user]
         vault_src == IF x_to_y THEN vault_x ELSE vault_y
         vault_dst == IF x_to_y THEN vault_y ELSE vault_x
         call(err, out) ==
           Call("swap", user, amount_in, min_amount_out, 0, x_to_y, err, out, 0,
                IF err = "Ok"
                  THEN << SwapEvent(user, amount_in, out, x_to_y, vault_src, vault_dst) >>
                  ELSE NoEvents)
         pre == swap_precheck(config.locked, amount_in, user_src, vault_src, vault_dst)
         amount_out ==
           IF fee_sub_overflows(config.fee)
             THEN wrapped_amount_out(vault_dst)
             ELSE swap_amount_out(vault_src, vault_dst,
                                  amount_in_with_fee(amount_in, config.fee))
         post == swap_postcheck(amount_out, min_amount_out, vault_dst)
     IN  IF pre # "Ok" THEN Fail(call(pre, 0))
         ELSE IF overflow_checks
                 /\ swap_overflows(vault_src, vault_dst, amount_in, config.fee)
           THEN Fail(call("ArithmeticOverflow", 0))
         ELSE IF post # "Ok" THEN Fail(call(post, amount_out))
         ELSE IF ~token_debit_ok(user_src, amount_in)
                 \/ ~token_debit_ok(vault_dst, amount_out)
           THEN Fail(call("TokenInsufficientFunds", amount_out))
         ELSE /\ ret' = call("Ok", amount_out)
              /\ vault_x' = IF x_to_y THEN vault_x + amount_in ELSE vault_x - amount_out
              /\ vault_y' = IF x_to_y THEN vault_y - amount_out ELSE vault_y + amount_in
              /\ user_x' = [user_x EXCEPT ![user] =
                              IF x_to_y THEN @ - amount_in ELSE @ + amount_out]
              /\ user_y' = [user_y EXCEPT ![user] =
                              IF x_to_y THEN @ + amount_out ELSE @ - amount_in]
              /\ UNCHANGED <<config, mint_lp, user_lp, word_bits>>

\* ----------------------------------------------------------------- Deposit
\* require!(!self.config.locked, ..); require!(amount != 0, ..);
deposit_precheck(locked, amount) ==
  IF locked THEN "PoolLocked"
  ELSE IF ~(amount # 0) THEN "InvalidAmount"
  ELSE "Ok"

\* The first-deposit test of the handler.
is_first_deposit(supply, reserve_x, reserve_y) ==
  supply = 0 /\ reserve_x = 0 /\ reserve_y = 0

\* ConstantProduct::xy_deposit_amounts_from_l belongs to the crate
\* constant_product_curve, which is not part of the repository.  The model
\* takes its answer as an input of the call: an error, or any pair of amounts.
NoCurve == [ok |-> FALSE, x |-> 0, y |-> 0]
CurveResults ==
  {NoCurve} \cup {[ok |-> TRUE, x |-> a, y |-> b] : a \in Amounts, b \in Amounts}

\* The first deposit taking only half of each maximum.
deposit_amounts_halved(first, max_x, max_y, curve) ==
  IF first THEN [ok |-> TRUE, x |-> max_x \div 2, y |-> max_y \div 2] ELSE curve

\* let (x, y) = if first { (max_x, max_y) } else { curve(..).map_err(..)? };
deposit_amounts(first, max_x, max_y, curve) ==
  IF first THEN [ok |-> TRUE, x |-> max_x, y |-> max_y] ELSE curve

\* The bound on y forgotten.
deposit_slippage_ok_x_only(x, y, max_x, max_y) == x <= max_x

\* require!(x <= max_x && y <= max_y, AmmError::SlippageExceeded);
deposit_slippage_ok(x, y, max_x, max_y) == x <= max_x /\ y <= max_y

\* A deposit that credits the caller with twice the LP it adds to the supply.
DepositCreditingTwice(user, amount, max_x, max_y, curve) ==
  /\ config.init
  /\ LET first == is_first_deposit(mint_lp, vault_x, vault_y)
         pre == deposit_precheck(config.locked, amount)
         amounts == deposit_amounts(first, max_x, max_y, curve)
         call(err, x, y) ==
           Call("deposit", user, amount, max_x, max_y, FALSE, err, x, y, NoEvents)
     IN  /\ first => curve = NoCurve
         /\ IF pre # "Ok" THEN Fail(call(pre, 0, 0))
            ELSE IF ~amounts.ok THEN Fail(call("InvalidAmount", 0, 0))
            ELSE IF ~deposit_slippage_ok(amounts.x, amounts.y, max_x, max_y)
              THEN Fail(call("SlippageExceeded", amounts.x, amounts.y))
            ELSE IF ~token_debit_ok(user_x[user], amounts.x)
                    \/ ~token_debit_ok(user_y[user], amounts.y)
              THEN Fail(call("TokenInsufficientFunds", amounts.x, amounts.y))
            ELSE /\ ret' = call("Ok", amounts.x, amounts.y)
                 /\ user_x' = [user_x EXCEPT ![user] = @ - amounts.x]
                 /\ vault_x' = vault_x + amounts.x
                 /\ user_y' = [user_y EXCEPT ![user] = @ - amounts.y]
                 /\ vault_y' = vault_y + amounts.y
                 /\ mint_lp' = mint_lp + amount
                 /\ user_lp' = [user_lp EXCEPT ![user] = @ + 2 * amount]
                 /\ UNCHANGED <<config, word_bits>>

Deposit(user, amount, max_x, max_y, curve) ==
  /\ config.init
  /\ LET first == is_first_deposit(mint_lp, vault_x, vault_y)
         pre == deposit_precheck(config.locked, amount)
         amounts == deposit_amounts(first, max_x, max_y, curve)
         call(err, x, y) ==
           Call("deposit", user, amount, max_x, max_y, FALSE, err, x, y, NoEvents)
     IN  /\ first => curve = NoCurve
         /\ IF pre # "Ok" THEN Fail(call(pre, 0, 0))
            ELSE IF ~amounts.ok THEN Fail(call("InvalidAmount", 0, 0))
            ELSE IF ~deposit_slippage_ok(amounts.x, amounts.y, max_x, max_y)
              THEN Fail(call("SlippageExceeded", amounts.x, amounts.y))
            ELSE IF ~token_debit_ok(user_x[user], amounts.x)
                    \/ ~token_debit_ok(user_y[user], amounts.y)
              THEN Fail(call("TokenInsufficientFunds", amounts.x, amounts.y))
            ELSE /\ ret' = call("Ok", amounts.x, amounts.y)
                 /\ user_x' = [user_x EXCEPT ![user] = @ - amounts.x]
                 /\ vault_x' = vault_x + amounts.x
                 /\ user_y' = [user_y EXCEPT ![user] = @ - amounts.y]
                 /\ vault_y' = vault_y + amounts.y
                 /\ mint_lp' = mint_lp + amount
                 /\ user_lp' = [user_lp EXCEPT ![user] = @ + amount]
                 /\ UNCHANGED <<config, word_bits>>

\* ---------------------------------------------------------------- Withdraw
\* The caller's LP balance not compared with lp_amount.
withdraw_precheck_unfunded(locked, lp_amount, user_lp_amount, supply) ==
  IF locked THEN "PoolLocked"
  ELSE IF ~(lp_amount > 0) THEN "InvalidAmount"
  ELSE IF ~(supply > 0) THEN "NoLiquidityInPool"
  ELSE "Ok"

\* The four require! lines that open the handler.
withdraw_precheck(locked, lp_amount, user_lp_amount, supply) ==
  IF locked THEN "PoolLocked"
  ELSE IF ~(lp_amount > 0) THEN "InvalidAmount"
  ELSE IF ~(user_lp_amount >= lp_amount) THEN "InsufficientFunds"
  ELSE IF ~(supply > 0) THEN "NoLiquidityInPool"
  ELSE "Ok"

\* The share rounded up instead of down.
withdraw_share_rounded_up(vault_amount, lp_amount, total_lp) ==
  (vault_amount * lp_amount + total_lp - 1) \div total_lp

\* (vault.amount as u128).checked_mul(lp_amount as u128).unwrap()
\*     .checked_div(total_lp as u128).unwrap() as u64
withdraw_share(vault_amount, lp_amount, total_lp) ==
  as_u64((vault_amount * lp_amount) \div total_lp)

\* The zero amounts looked at before the slippage bounds.
withdraw_postcheck_zero_first(x_out, y_out, min_x, min_y, reserve_x, reserve_y) ==
  IF ~(x_out > 0 /\ y_out > 0) THEN "InvalidAmount"
  ELSE IF ~(x_out >= min_x /\ y_out >= min_y) THEN "SlippageExceeded"
  ELSE IF ~(reserve_x >= x_out) THEN "InsufficientLiquidity"
  ELSE IF ~(reserve_y >= y_out) THEN "InsufficientLiquidity"
  ELSE "Ok"

\* The four require! lines after the computation.
withdraw_postcheck(x_out, y_out, min_x, min_y, reserve_x, reserve_y) ==
  IF ~(x_out >= min_x /\ y_out >= min_y) THEN "SlippageExceeded"
  ELSE IF ~(x_out > 0 /\ y_out > 0) THEN "InvalidAmount"
  ELSE IF ~(reserve_x >= x_out) THEN "InsufficientLiquidity"
  ELSE IF ~(reserve_y >= y_out) THEN "InsufficientLiquidity"
  ELSE "Ok"

\* A withdrawal that pays the caller's X without taking it from vault_x.
WithdrawLeavingVaultX(user, lp_amount, min_x, min_y) ==
  /\ config.init
  /\ LET pre == withdraw_precheck(config.locked, lp_amount, user_lp[user], mint_lp)
         x_out == withdraw_share(vault_x, lp_amount, mint_lp)
         y_out == withdraw_share(vault_y, lp_amount, mint_lp)
         post == withdraw_postcheck(x_out, y_out, min_x, min_y, vault_x, vault_y)
         call(err, x, y) ==
           Call("withdraw", user, lp_amount, min_x, min_y, FALSE, err, x, y, NoEvents)
     IN  IF pre # "Ok" THEN Fail(call(pre, 0, 0))
         ELSE IF post # "Ok" THEN Fail(call(post, x_out, y_out))
         ELSE /\ ret' = call("Ok", x_out, y_out)
              /\ mint_lp' = mint_lp - lp_amount
              /\ user_lp' = [user_lp EXCEPT ![user] = @ - lp_amount]
              /\ user_x' = [user_x EXCEPT ![user] = @ + x_out]
              /\ vault_y' = vault_y - y_out
              /\ user_y' = [user_y EXCEPT ![user] = @ + y_out]
              /\ UNCHANGED <<config, vault_x, word_bits>>

Withdraw(user, lp_amount, min_x, min_y) ==
  /\ config.init
  /\ LET pre == withdraw_precheck(config.locked, lp_amount, user_lp[user], mint_lp)
         total_lp == mint_lp
         x_out == withdraw_share(vault_x, lp_amount, total_lp)
         y_out == withdraw_share(vault_y, lp_amount, total_lp)
         post == withdraw_postcheck(x_out, y_out, min_x, min_y, vault_x, vault_y)
         call(err, x, y) ==
           Call("withdraw", user, lp_amount, min_x, min_y, FALSE, err, x, y, NoEvents)
     IN  IF pre # "Ok" THEN Fail(call(pre, 0, 0))
         ELSE IF post # "Ok" THEN Fail(call(post, x_out, y_out))
         ELSE IF ~token_debit_ok(user_lp[user], lp_amount)
                 \/ ~token_debit_ok(vault_x, x_out)
                 \/ ~token_debit_ok(vault_y, y_out)
           THEN Fail(call("TokenInsufficientFunds", x_out, y_out))
         ELSE /\ ret' = call("Ok", x_out, y_out)
              /\ mint_lp' = mint_lp - lp_amount
              /\ user_lp' = [user_lp EXCEPT ![user] = @ - lp_amount]
              /\ vault_x' = vault_x - x_out
              /\ user_x' = [user_x EXCEPT ![user] = @ + x_out]
              /\ vault_y' = vault_y - y_out
              /\ user_y' = [user_y EXCEPT ![user] = @ + y_out]
              /\ UNCHANGED <<config, word_bits>>

\* ----------------------------------------------------------- specification
\* A call is made when the outcome of the one before it has been read.
Idle == ret.op = "none"

\* The caller reads the outcome of its call.
Observe ==
  /\ ~Idle
  /\ ret' = NoCall
  /\ UNCHANGED <<config, ledger, word_bits>>

InitializeCall == Idle /\ \E fee \in PoolFees : Initialize(fee)

DepositCall ==
  /\ Idle
  /\ \E user \in Users, amount \in Amounts, max_x \in Amounts, max_y \in Amounts,
        curve \in CurveResults :
       /\ mint_lp + amount <= MaxLp
       /\ Deposit(user, amount, max_x, max_y, curve)

SwapCall ==
  /\ Idle
  /\ \E user \in Users, amount_in \in Amounts, min_amount_out \in Amounts,
        x_to_y \in BOOLEAN :
       Swap(user, amount_in, min_amount_out, x_to_y)

WithdrawCall ==
  /\ Idle
  /\ \E user \in Users, lp_amount \in Amounts, min_x \in Amounts, min_y \in Amounts :
       Withdraw(user, lp_amount, min_x, min_y)

\* The life of one pool: Initialize, then any calls of the three handlers.
Next == InitializeCall \/ DepositCall \/ SwapCall \/ WithdrawCall \/ Observe

Spec == Init /\ [][Next]_vars

\* ------------------------------------------------- one call, any accounts
\* The handlers as functions of the accounts they are given: the pool is in
\* any state (any reserves, any LP balances, locked or not) and one call is
\* made.  The vaults are ordinary token accounts that anyone can pay into, so
\* the reserves need not be what deposits alone produce.
RECURSIVE SumOver(_, _)
SumOver(f, S) ==
  IF S = {} THEN 0
  ELSE LET u == CHOOSE v \in S : TRUE IN f[u] + SumOver(f, S \ {u})

Reserves == 0 .. MaxR

InitCalls ==
  /\ word_bits = AmpleBits
  /\ config \in {[init |-> TRUE, fee |-> f, locked |-> l] :
                   f \in PoolFees, l \in BOOLEAN}
  /\ vault_x \in Reserves
  /\ vault_y \in Reserves
  /\ user_lp \in [Users -> Amounts]
  /\ mint_lp = SumOver(user_lp, Users)
  /\ \E h \in {0, MaxArg} :
       /\ user_x = [u \in Users |-> h]
       /\ user_y = [u \in Users |-> h]
  /\ ret = NoCall

OneDeposit ==
  /\ Idle
  /\ \E user \in Users, amount \in Amounts, max_x \in Amounts, max_y \in Amounts,
        curve \in CurveResults :
       Deposit(user, amount, max_x, max_y, curve)

NextCalls == OneDeposit \/ SwapCall \/ WithdrawCall

SpecCalls == InitCalls /\ [][NextCalls]_vars

\* ------------------------------------------------------- one swap, any pool
\* One swap on a wider range of pools, fees and amounts.
SwapReserves == 0 .. 3 * MaxR
SwapAmounts == 0 .. 2 * MaxArg

InitSwapOn(reserves, holdings) ==
  /\ word_bits = AmpleBits
  /\ config \in {[init |-> TRUE, fee |-> f, locked |-> FALSE] : f \in FeeSet}
  /\ vault_x \in reserves
  /\ vault_y \in reserves
  /\ mint_lp = 0
  /\ user_lp = [u \in Users |-> 0]
  /\ \E h \in holdings :
       /\ user_x = [u \in Users |-> h]
       /\ user_y = [u \in Users |-> h]
  /\ ret = NoCall

InitSwap == InitSwapOn(SwapReserves, {0, 2 * MaxArg})

OneSwap ==
  /\ Idle
  /\ \E user \in Users, amount_in \in SwapAmounts, min_amount_out \in SwapAmounts,
        x_to_y \in BOOLEAN :
       Swap(user, amount_in, min_amount_out, x_to_y)

SpecSwap == InitSwap /\ [][OneSwap]_vars

\* The same with the pool of the example of spec section 8 among the pools:
\* reserves of 1_000_000 each, fee 30, 1_000 in, 996 out.
ExampleReserves == Reserves \cup {1000000}
ExampleAmounts == Amounts \cup {1000}
ExampleLimits == Amounts \cup {996, 997}

InitExample == InitSwapOn(ExampleReserves, {0, MaxArg, 1000})

ExampleSwap ==
  /\ Idle
  /\ \E user \in Users, amount_in \in ExampleAmounts,
        min_amount_out \in ExampleLimits, x_to_y \in BOOLEAN :
       Swap(user, amount_in, min_amount_out, x_to_y)

SpecExample == InitExample /\ [][ExampleSwap]_vars

\* ------------------------------------------- one call, full-width accounts
\* One swap or one withdrawal on accounts whose balances reach the top of
\* the u64 range.  A mint's supply is itself a u64, so the balances of one
\* token never add up to more than the range holds.
WidthReserves == {1, 2, U64 \div 2, U64 - 2, U64 - 1}
WidthHoldings == {0, 1, U64 \div 2 - 1}
WidthAmounts == {0, 1, U64 \div 2 - 1, U64 - 1}
WidthLimits == {0, 1, U64 - 1}

InitWidth ==
  /\ word_bits = WordBits
  /\ config \in {[init |-> TRUE, fee |-> f, locked |-> FALSE] : f \in FeeSet}
  /\ vault_x \in WidthReserves
  /\ vault_y \in WidthReserves
  /\ \E hx \in WidthHoldings, hy \in WidthHoldings :
       /\ vault_x + hx < U64
       /\ vault_y + hy < U64
       /\ user_x = [u \in Users |-> IF u = "u1" THEN hx ELSE 0]
       /\ user_y = [u \in Users |-> IF u = "u1" THEN hy ELSE 0]
  /\ user_lp \in [Users -> WidthHoldings]
  /\ mint_lp = SumOver(user_lp, Users)
  /\ ret = NoCall

WidthSwap ==
  /\ Idle
  /\ \E user \in Users, amount_in \in WidthAmounts, min_amount_out \in WidthLimits,
        x_to_y \in BOOLEAN :
       Swap(user, amount_in, min_amount_out, x_to_y)

WidthWithdraw ==
  /\ Idle
  /\ \E user \in Users, lp_amount \in WidthAmounts, min_x \in WidthLimits,
        min_y \in WidthLimits :
       Withdraw(user, lp_amount, min_x, min_y)

NextWidth == WidthSwap \/ WidthWithdraw

SpecWidth == InitWidth /\ [][NextWidth]_vars

\* ------------------------------------------------------------------ claims
\* What the claims read of a step: the reserves and the caller's balances
\* on the source and the destination side of the swap recorded in call c.
ReserveIn(c) == IF c.x_to_y THEN vault_x ELSE vault_y
ReserveOut(c) == IF c.x_to_y THEN vault_y ELSE vault_x
CallerIn(c) == IF c.x_to_y THEN user_x[c.user] ELSE user_y[c.user]
CallerOut(c) == IF c.x_to_y THEN user_y[c.user] ELSE user_x[c.user]

\* The swap output as spec section 4.2 states it.
EffectiveIn(amount_in, fee) == (amount_in * (10000 - fee)) \div 10000
CurveOut(reserve_in, reserve_out, amount_in, fee) ==
  (EffectiveIn(amount_in, fee) * reserve_out)
    \div (reserve_in + EffectiveIn(amount_in, fee))

SwapDone(c) == c.op = "swap" /\ c.err = "Ok"

\* C1: every successful Swap, in either direction and with any amount and
\* fee, leaves the product of the two vault balances at or above its value
\* before the swap.
C1_ProductNeverDecreases ==
  [][SwapDone(ret') => vault_x' * vault_y' >= vault_x * vault_y]_vars

\* A swap of more than one unit from Y to X has succeeded.
C1_Witness == SwapDone(ret) /\ ~ret.x_to_y /\ ret.amount > 1

\* C2: with a fee above 0, every successful Swap strictly increases the
\* product of the two vault balances.
C2_ProductGrowsUnderFee ==
  [][(SwapDone(ret') /\ config.fee > 0)
       => vault_x' * vault_y' > vault_x * vault_y]_vars

\* A swap has succeeded on a pool whose fee is 30.
C2_Witness == SwapDone(ret) /\ config.fee = 30 /\ ret.x_to_y

\* C3: in every state reached from Initialize by Deposit, Swap and Withdraw
\* calls the LP supply is 0 exactly when both vaults are empty, and no state
\* has a positive supply with an empty vault.
C3_SupplyZeroIffVaultsEmpty ==
  /\ (mint_lp = 0) <=> (vault_x = 0 /\ vault_y = 0)
  /\ mint_lp > 0 => (vault_x > 0 /\ vault_y > 0)

\* C4: on a locked pool Deposit, Swap and Withdraw fail with PoolLocked
\* whatever their arguments are, and no vault balance, user balance or LP
\* supply changes.
C4_LockedRejectsAll ==
  [][(config.locked /\ ret'.op \in {"deposit", "swap", "withdraw"})
       => (ret'.err = "PoolLocked" /\ UNCHANGED <<config, ledger>>)]_vars

\* A swap of amount 0 was refused for the lock, not for its amount.
C4_Witness ==
  config.locked /\ ret.op = "swap" /\ ret.err = "PoolLocked" /\ ret.amount = 0

\* C5: a Swap on an unlocked pool with amount_in > 0, enough caller balance
\* and both reserves above 0, whose min_amount_out is above the computed
\* amount_out, fails with SlippageExceeded and changes no balance.  (The
\* amount_out is computed for the fees up to 10_000; above, the handler stops
\* in the subtraction before it computes one.)
C5_SlippageRejected ==
  [][(/\ ret'.op = "swap"
      /\ ~config.locked
      /\ ret'.amount > 0
      /\ CallerIn(ret') >= ret'.amount
      /\ vault_x > 0 /\ vault_y > 0
      /\ config.fee <= 10000
      /\ ret'.lim1 > CurveOut(ReserveIn(ret'), ReserveOut(ret'),
                              ret'.amount, config.fee))
       => (ret'.err = "SlippageExceeded" /\ UNCHANGED <<config, ledger>>)]_vars

\* The example swap of 1_000 in was refused for asking 997 out.
C5_Witness ==
  /\ ret.op = "swap" /\ ret.err = "SlippageExceeded"
  /\ ret.amount = 1000 /\ ret.lim1 = 997 /\ ret.out1 = 996

\* C6: the first successful Deposit, on a pool with LP supply 0 and empty
\* vaults, called with (lp_amount, max_x, max_y) leaves vault_x = max_x and
\* vault_y = max_y and adds exactly lp_amount to the caller's LP balance and
\* to the LP supply.
C6_FirstDepositTakesMaxima ==
  [][(/\ ret'.op = "deposit" /\ ret'.err = "Ok"
      /\ mint_lp = 0 /\ vault_x = 0 /\ vault_y = 0)
       => (/\ vault_x' = ret'.lim1
           /\ vault_y' = ret'.lim2
           /\ user_lp'[ret'.user] = user_lp[ret'.user] + ret'.amount
           /\ mint_lp' = mint_lp + ret'.amount)]_vars

\* A deposit with two different maxima has made the pool's first reserves.
C6_Witness ==
  /\ ret.op = "deposit" /\ ret.err = "Ok"
  /\ mint_lp = ret.amount
  /\ vault_x = ret.lim1 /\ vault_y = ret.lim2
  /\ 0 < vault_x /\ vault_x < vault_y

\* C8: a successful Deposit takes at most max_x of X and at most max_y of Y
\* from the caller; a Deposit whose computed x is above max_x or whose
\* computed y is above max_y fails with SlippageExceeded and changes nothing.
C8_DepositWithinMaxima ==
  [][ret'.op = "deposit"
       => /\ ret'.err = "Ok"
               => /\ user_x[ret'.user] - user_x'[ret'.user] <= ret'.lim1
                  /\ user_y[ret'.user] - user_y'[ret'.user] <= ret'.lim2
                  /\ vault_x' - vault_x <= ret'.lim1
                  /\ vault_y' - vault_y <= ret'.lim2
          /\ (ret'.out1 > ret'.lim1 \/ ret'.out2 > ret'.lim2)
               => (ret'.err = "SlippageExceeded" /\ UNCHANGED <<config, ledger>>)]_vars

\* A deposit was refused because only its y was above the maximum.
C8_Witness ==
  /\ ret.op = "deposit" /\ ret.err = "SlippageExceeded"
  /\ ret.out1 <= ret.lim1 /\ ret.out2 > ret.lim2

\* C9: a successful Swap pays out floor(e * R_out / (R_in + e)) with
\* e = floor(amount_in * (10000 - fee) / 10000); the source vault grows by the
\* whole amount_in and the destination vault shrinks by the amount paid; with
\* fee 30, reserves of 1_000_000 each and 1_000 of X in, 996 of Y are paid.
C9_SwapPaysCurveOutput ==
  [][SwapDone(ret')
       => LET c == ret'
              out == CurveOut(ReserveIn(c), ReserveOut(c), c.amount, config.fee)
              src_after == IF c.x_to_y THEN vault_x' ELSE vault_y'
              dst_after == IF c.x_to_y THEN vault_y' ELSE vault_x'
              paid_after == IF c.x_to_y THEN user_x'[c.user] ELSE user_y'[c.user]
              got_after == IF c.x_to_y THEN user_y'[c.user] ELSE user_x'[c.user]
          IN  /\ c.out1 = out
              /\ src_after = ReserveIn(c) + c.amount
              /\ dst_after = ReserveOut(c) - out
              /\ paid_after = CallerIn(c) - c.amount
              /\ got_after = CallerOut(c) + out
              /\ (/\ config.fee = 30 /\ vault_x = 1000000 /\ vault_y = 1000000
                  /\ c.amount = 1000 /\ c.x_to_y)
                   => (vault_y - vault_y' = 996 /\ vault_x' = 1001000)]_vars

\* The example swap has been made.
C9_Witness ==
  /\ SwapDone(ret) /\ config.fee = 30 /\ ret.amount = 1000 /\ ret.x_to_y
  /\ vault_x = 1001000 /\ vault_y = 999004

\* C10: a successful Withdraw of lp_amount pays the caller
\* floor(R_x * lp_amount / supply) of X and floor(R_y * lp_amount / supply)
\* of Y, by the values before the call; the vaults fall by these amounts and
\* the caller's LP balance and the LP supply fall by lp_amount.
C10_WithdrawPaysFlooredShare ==
  [][(ret'.op = "withdraw" /\ ret'.err = "Ok")
       => LET u == ret'.user
              lp == ret'.amount
              x == (vault_x * lp) \div mint_lp
              y == (vault_y * lp) \div mint_lp
          IN  /\ user_x'[u] = user_x[u] + x
              /\ user_y'[u] = user_y[u] + y
              /\ vault_x' = vault_x - x
              /\ vault_y' = vault_y - y
              /\ user_lp'[u] = user_lp[u] - lp
              /\ mint_lp' = mint_lp - lp]_vars

\* A withdrawal of part of the supply has been paid, rounded down in X.
C10_Witness ==
  /\ ret.op = "withdraw" /\ ret.err = "Ok"
  /\ mint_lp > 0
  /\ (vault_x + ret.out1) * ret.amount > ret.out1 * (mint_lp + ret.amount)

\* C13: in every state after Initialize, whatever u16 fee it was given and
\* whatever calls followed, the stored fee is at least 0 and below 10000.
C13_StoredFeeBelowDenominator ==
  config.init => (0 <= config.fee /\ config.fee < 10000)

SwapFunded(c) == ~config.locked /\ c.amount > 0 /\ CallerIn(c) >= c.amount
SwapComputed(c) ==
  SwapFunded(c) /\ vault_x > 0 /\ vault_y > 0 /\ config.fee <= 10000
SwapRefused(c, err) == c.err = err /\ UNCHANGED <<config, ledger>>

\* C15 (as amended): a Swap on an unlocked pool fails with InvalidAmount when
\* amount_in is 0, and when the computed amount_out is 0 and min_amount_out
\* is 0; when the computed amount_out is 0 and min_amount_out is above 0 it
\* fails with SlippageExceeded; it fails with InsufficientLiquidity when
\* amount_in > 0, the caller holds amount_in and either vault is empty; in
\* all these cases no balance changes.
C15_SwapZeroAndEmptyErrors ==
  [][ret'.op = "swap"
       => LET c == ret'
              out == CurveOut(ReserveIn(c), ReserveOut(c), c.amount, config.fee)
          IN  /\ (~config.locked /\ c.amount = 0) => SwapRefused(c, "InvalidAmount")
              /\ (SwapComputed(c) /\ out = 0 /\ c.lim1 = 0)
                   => SwapRefused(c, "InvalidAmount")
              /\ (SwapComputed(c) /\ out = 0 /\ c.lim1 > 0)
                   => SwapRefused(c, "SlippageExceeded")
              /\ (SwapFunded(c) /\ (vault_x = 0 \/ vault_y = 0))
                   => SwapRefused(c, "InsufficientLiquidity")]_vars

\* A swap whose output rounds to 0 was refused with InvalidAmount.
C15_Witness ==
  /\ ret.op = "swap" /\ ret.err = "InvalidAmount"
  /\ ret.amount > 0 /\ ret.lim1 = 0 /\ ret.out1 = 0
  /\ vault_x > 0 /\ vault_y > 0

\* C15 as stated: a Swap whose computed amount_out is 0 fails with
\* InvalidAmount for any min_amount_out.
C15_ZeroOutputAlwaysInvalidAmount ==
  [][(ret'.op = "swap" /\ SwapComputed(ret')
        /\ CurveOut(ReserveIn(ret'), ReserveOut(ret'), ret'.amount, config.fee) = 0)
       => SwapRefused(ret', "InvalidAmount")]_vars

\* C16: no computation of Swap or Withdraw wraps or truncates: over the whole
\* u64 range of reserves, supply and amounts and every fee, a call either
\* aborts and changes nothing or pays the amounts of the exact
\* unbounded-integer formulas (the narrowing of amount_out, x_out and y_out
\* to 64 bits loses nothing, no 128-bit operation leaves its range), and a
\* Swap under a fee above 10000 aborts.
C16_NoWrapNoTruncation ==
  [][/\ ret'.err # "Ok" => UNCHANGED <<config, ledger>>
     /\ SwapDone(ret')
          => LET c == ret'
                 out == CurveOut(ReserveIn(c), ReserveOut(c), c.amount, config.fee)
             IN  /\ config.fee <= 10000
                 /\ u128_in_range(c.amount * (10000 - config.fee))
                 /\ u128_in_range(EffectiveIn(c.amount, config.fee) * ReserveOut(c))
                 /\ c.out1 = out
                 /\ vault_x' + vault_y' = vault_x + vault_y + c.amount - out
     /\ (ret'.op = "withdraw" /\ ret'.err = "Ok")
          => LET x == (vault_x * ret'.amount) \div mint_lp
                 y == (vault_y * ret'.amount) \div mint_lp
             IN  /\ u128_in_range(vault_x * ret'.amount)
                 /\ u128_in_range(vault_y * ret'.amount)
                 /\ ret'.out1 = x /\ vault_x' = vault_x - x
                 /\ ret'.out2 = y /\ vault_y' = vault_y - y
     /\ (/\ ret'.op = "swap" /\ SwapFunded(ret')
         /\ vault_x > 0 /\ vault_y > 0 /\ config.fee > 10000)
          => ret'.err # "Ok"]_vars

\* A swap has paid an amount that takes more than half the bits of a u64.
C16_Witness ==
  /\ SwapDone(ret) /\ ret.out1 >= U64 \div 4
  /\ ret.amount = 1

\* C17: a Withdraw on an unlocked pool with 0 < lp_amount <= the caller's LP
\* balance fails with SlippageExceeded when the computed x is below min_x or
\* the computed y below min_y, and with InvalidAmount when both bounds are
\* met but x or y is 0; either way no LP is burned and no reserve moves.
C17_WithdrawSlippageThenZero ==
  [][(/\ ret'.op = "withdraw" /\ ~config.locked
      /\ 0 < ret'.amount /\ ret'.amount <= user_lp[ret'.user])
       => LET x == (vault_x * ret'.amount) \div mint_lp
              y == (vault_y * ret'.amount) \div mint_lp
              refused(err) == ret'.err = err /\ UNCHANGED <<config, ledger>>
          IN  /\ (x < ret'.lim1 \/ y < ret'.lim2) => refused("SlippageExceeded")
              /\ (x >= ret'.lim1 /\ y >= ret'.lim2 /\ (x = 0 \/ y = 0))
                   => refused("InvalidAmount")]_vars

\* A withdrawal within its bounds was refused because its x rounds to 0.
C17_Witness ==
  /\ ret.op = "withdraw" /\ ret.err = "InvalidAmount"
  /\ ret.amount > 0 /\ ret.out1 = 0 /\ ret.out2 > 0
  /\ vault_x > 0

\* C18: every successful Swap emits exactly one event; its user, amount_in,
\* amount_out and x_to_y are those of the trade made and its reserve_x and
\* reserve_y are the balances of vault_x and vault_y after the swap, in both
\* directions; a failed Swap emits no event.
C18_SwapEventTellsTheTrade ==
  [][ret'.op = "swap"
       => IF ret'.err = "Ok"
            THEN /\ Len(ret'.events) = 1
                 /\ LET e == ret'.events[1]
                        paid == IF e.x_to_y THEN vault_y - vault_y' ELSE vault_x - vault_x'
                        taken == IF e.x_to_y THEN vault_x' - vault_x ELSE vault_y' - vault_y
                    IN  /\ e.user = ret'.user
                        /\ e.x_to_y = ret'.x_to_y
                        /\ e.amount_in = ret'.amount /\ e.amount_in = taken
                        /\ e.amount_out = ret'.out1 /\ e.amount_out = paid
                        /\ e.reserve_x = vault_x'
                        /\ e.reserve_y = vault_y'
            ELSE ret'.events = NoEvents]_vars

\* A swap from Y to X has been made and its event shows the new reserves.
C18_Witness ==
  /\ SwapDone(ret) /\ ~ret.x_to_y /\ Len(ret.events) = 1
  /\ ret.events[1].reserve_x = vault_x /\ ret.events[1].reserve_y = vault_y
  /\ ret.events[1].amount_out > 0

\* C19: the locked flag is false in every state reached through the four
\* instructions, and no Deposit, Swap or Withdraw returns PoolLocked.
C19_NeverLocked ==
  /\ ~config.locked
  /\ ret.err # "PoolLocked"

\* A pool has been initialized, funded and withdrawn from, and is not locked.
C19_Witness ==
  /\ config.init /\ ~config.locked
  /\ ret.op = "withdraw" /\ ret.err = "Ok"

\* C20: after any calls of Deposit, Swap and Withdraw, successful or failed,
\* vault_x and the users' X balances add up to what they added up to at the
\* start, and so do vault_y and the users' Y balances.
C20_AssetsConserved ==
  /\ vault_x + SumOver(user_x, Users) = Cardinality(Users) * MaxBal
  /\ vault_y + SumOver(user_y, Users) = Cardinality(Users) * MaxBal

\* X and Y have moved: a withdrawal was paid from vaults that a swap had
\* made unequal, to users whose balances differ.
C20_Witness ==
  /\ ret.op = "withdraw" /\ ret.err = "Ok" /\ ret.out1 # ret.out2
  /\ vault_x > 0 /\ vault_y > 0
  /\ user_x["u1"] # user_x["u2"]

\* C21: in every reachable state the LP supply is the sum of the users' LP
\* balances; a successful Deposit adds lp_amount to the supply and to the
\* caller's balance, a successful Withdraw takes lp_amount from both, and a
\* Swap changes neither.
C21_SupplyIsSumOfBalances ==
  [][/\ mint_lp = SumOver(user_lp, Users)
     /\ mint_lp' = SumOver(user_lp', Users)
     /\ (ret'.op = "deposit" /\ ret'.err = "Ok")
          => /\ mint_lp' = mint_lp + ret'.amount
             /\ user_lp' = [user_lp EXCEPT ![ret'.user] = @ + ret'.amount]
     /\ (ret'.op = "withdraw" /\ ret'.err = "Ok")
          => /\ mint_lp' = mint_lp - ret'.amount
             /\ user_lp' = [user_lp EXCEPT ![ret'.user] = @ - ret'.amount]
     /\ ret'.op = "swap" => UNCHANGED <<mint_lp, user_lp>>
     /\ ret'.err # "Ok" => UNCHANGED <<mint_lp, user_lp>>]_vars

\* Both users hold LP and one of them has withdrawn part of the supply.
C21_Witness ==
  /\ ret.op = "withdraw" /\ ret.err = "Ok"
  /\ mint_lp > 0
  /\ \E u \in Users : u # ret.user /\ user_lp[u] = mint_lp

\* C22: a Swap never drains a vault: whenever the checks before the curve
\* computation pass, the computed amount_out is strictly below the
\* destination reserve, the last InsufficientLiquidity check does not fire,
\* and after every successful Swap both vaults hold more than 0.
C22_SwapNeverDrains ==
  [][ret'.op = "swap"
       => /\ SwapComputed(ret')
               => /\ CurveOut(ReserveIn(ret'), ReserveOut(ret'), ret'.amount,
                              config.fee) < ReserveOut(ret')
                  /\ ret'.out1 < ReserveOut(ret')
                  /\ ret'.err # "InsufficientLiquidity"
          /\ (SwapFunded(ret') /\ vault_x > 0 /\ vault_y > 0)
               => ret'.err # "InsufficientLiquidity"
          /\ ret'.err = "Ok" => (vault_x' > 0 /\ vault_y' > 0)]_vars

\* A swap much larger than the pool has left one unit in the vault it drew on.
C22_Witness ==
  /\ SwapDone(ret) /\ ret.x_to_y
  /\ vault_y = 1 /\ ret.out1 >= 2 /\ config.fee = 0

\* C23: in every reachable state a Withdraw fails neither with
\* NoLiquidityInPool nor with InsufficientLiquidity: a caller who holds
\* lp_amount > 0 implies supply >= lp_amount > 0, hence x_out <= vault_x and
\* y_out <= vault_y; and a Withdraw of the whole LP supply computes, and on
\* success pays, exactly the full balance of both vaults.
C23_WithdrawAlwaysCovered ==
  [][ret'.op = "withdraw"
       => /\ ret'.err \notin {"NoLiquidityInPool", "InsufficientLiquidity"}
          /\ (0 < ret'.amount /\ ret'.amount <= user_lp[ret'.user])
               => /\ mint_lp >= ret'.amount
                  /\ ret'.out1 <= vault_x /\ ret'.out2 <= vault_y
                  /\ ret'.amount = mint_lp
                       => /\ ret'.out1 = vault_x /\ ret'.out2 = vault_y
                          /\ ret'.err = "Ok"
                               => /\ vault_x' = 0 /\ vault_y' = 0
                                  /\ user_x'[ret'.user] = user_x[ret'.user] + vault_x
                                  /\ user_y'[ret'.user] = user_y[ret'.user] + vault_y]_vars

\* The whole supply has been withdrawn from a pool that a swap had moved.
C23_Witness ==
  /\ ret.op = "withdraw" /\ ret.err = "Ok"
  /\ mint_lp = 0 /\ vault_x = 0 /\ vault_y = 0
  /\ ret.out1 > 0 /\ ret.out1 # ret.out2

====
